---- MODULE Spec2Model ----
(***************************************************************************)
(* Booking / payment consistency of the ALX travel app (listings app).     *)
(*                                                                         *)
(* The store holds Booking and Payment rows; requests (initiate, verify,   *)
(* webhook, booking create / confirm / cancel, listing update) run in      *)
(* worker slots.  A request works on its own in-memory copy of a Payment   *)
(* row (a Django model instance) and every Payment.save() writes the whole *)
(* copy back (Django's save() without update_fields updates every column). *)
(* A handler is split exactly at its store accesses, so that the           *)
(* interleavings of two requests are those the store allows.  No handler   *)
(* runs inside transaction.atomic and none takes a lock.                   *)
(*                                                                         *)
(* Not modelled: the keys of chapa_response other than 'status',           *)
(* last_verification_at, the customer_* columns, Review, and the listing   *)
(* catalogue beyond max_guests and host.  Each worker slot also records,   *)
(* for the properties, the status its Payment had when it was loaded and   *)
(* the gateway calls the request made.                                     *)
(***************************************************************************)
EXTENDS Integers, FiniteSets, TLC

VARIABLES
    listing_max_guests,   \* Listing.max_guests of the one listing
    bookings,             \* Booking rows: pk -> row
    payments,             \* Payment rows: pk -> row
    clock,                \* the last value timezone.now() returned
    confirmation_emails,  \* Payment pk -> calls of send_booking_confirmation_email
    failed_emails,        \* Payment pk -> calls of send_payment_failed_email
    confirmed_once,       \* history: Booking pk -> its status has moved into confirmed
    proc                  \* worker slot -> the request it is running

vars == <<listing_max_guests, bookings, payments, clock, confirmation_emails,
          failed_emails, confirmed_once, proc>>

store == <<listing_max_guests, bookings, payments, clock, confirmation_emails,
           failed_emails, confirmed_once>>

----------------------------------------------------------------------------
\* Bounds of the model.

MaxBookings == 2
MaxPayments == 2
MaxPaidBookings == 1
MaxDate == 2
MaxGuests == 2
MaxPrice == 1
MaxClock == 2
MaxAttempts == 2

BookingIds == 1..MaxBookings
PaymentIds == 1..MaxPayments
Dates == 1..MaxDate
GuestCounts == 1..MaxGuests
Prices == 1..MaxPrice

\* Users of the system: the host of the listing, a user who books, and a
\* user who owns nothing.
Users == {"alice", "bob", "host"}
Guests == {"alice"}
ListingHost == "host"

\* An empty foreign key / absent query parameter, and SQL NULL for paid_at.
NoRef == 0
NULL == 0

\* A field the request data does not carry (data.get(...) is None).
Absent == 0

\* Payment.chapa_response before any gateway data was merged into it
\* (default=dict).
NoData == "none"

BOOKING_STATUS_CHOICES == {"pending", "confirmed", "cancelled", "completed"}

PAYMENT_STATUS_CHOICES ==
    {"pending", "processing", "completed", "failed", "cancelled", "refunded"}

\* What Chapa's verify endpoint, or a webhook payload, reports as the
\* transaction status.
GatewayStatuses == {"success", "failed", "cancelled", "pending", "unknown"}

\* Outcomes of ChapaService.verify_payment: a status, a non-success answer
\* of the gateway, or a RequestException.
VerifyOutcomes == GatewayStatuses \cup {"rejected", "network"}

\* Outcomes of ChapaService.initiate_payment.
InitiateOutcomes == {"accept", "rejected", "network"}

NoPay == [pk |-> 0]

IdleProc ==
    [op |-> "idle", pc |-> "idle", caller |-> "none", bid |-> 0, ref |-> NoRef,
     gw |-> "none", amount |-> 0, pay |-> NoPay, loaded |-> "none",
     gateway_calls |-> 0, resp |-> "none"]

----------------------------------------------------------------------------
\* Booking model.

\* Booking.clean as it would be without the capacity check.
clean_dates_only(b) == b.check_out_date > b.check_in_date

\* Booking.clean: the two validations run by every Booking.save().
clean(b) ==
    /\ b.check_out_date > b.check_in_date
    /\ b.number_of_guests <= listing_max_guests

\* BookingSerializer.validate: dates and capacity of a create request.
validate(ci, co, n) ==
    IF co <= ci THEN "invalid_dates"
    ELSE IF n > listing_max_guests THEN "capacity_exceeded"
    ELSE "ok"

NextBookingId == Cardinality(DOMAIN bookings) + 1

----------------------------------------------------------------------------
\* Payment model.

\* Payment.is_successful as it would read if it tested the wrong status.
is_successful_processing(pay) == pay.status = "processing"

\* Payment.is_successful
is_successful(pay) == pay.status = "completed"

\* can_be_refunded as it would be if it tested paid_at alone.
can_be_refunded_paid_at_only(pay) == pay.paid_at # NULL

\* Payment.can_be_refunded
can_be_refunded(pay) == pay.status = "completed" /\ pay.paid_at # NULL

\* The reverse one-to-one accessor booking.payment: the Payment rows that
\* reference the booking (at most one, by the unique constraint).
PaymentsOf(bid) == {k \in DOMAIN payments : payments[k].booking = bid}

NextPaymentId == Cardinality(DOMAIN payments) + 1

\* The inserted row as it would be if the status default were processing.
NewPayment_processing(pk, bid, amount) ==
    [pk |-> pk, booking |-> bid, payment_reference |-> pk, amount |-> amount,
     currency |-> "ETB", status |-> "processing", chapa_checkout_url |-> FALSE,
     paid_at |-> NULL, webhook_verified |-> FALSE, verification_attempts |-> 0,
     chapa_response |-> NoData]

\* The inserted row as it would be if the reference default were one value
\* computed when the module is loaded (default=uuid.uuid4()).
NewPayment_fixed_reference(pk, bid, amount) ==
    [pk |-> pk, booking |-> bid, payment_reference |-> 1, amount |-> amount,
     currency |-> "ETB", status |-> "pending", chapa_checkout_url |-> FALSE,
     paid_at |-> NULL, webhook_verified |-> FALSE, verification_attempts |-> 0,
     chapa_response |-> NoData]

\* The inserted row as it would be if the amount were a fixed unit price.
NewPayment_unit_amount(pk, bid, amount) ==
    [pk |-> pk, booking |-> bid, payment_reference |-> pk, amount |-> 1,
     currency |-> "ETB", status |-> "pending", chapa_checkout_url |-> FALSE,
     paid_at |-> NULL, webhook_verified |-> FALSE, verification_attempts |-> 0,
     chapa_response |-> NoData]

\* Payment.objects.create(booking=..., amount=...): the row as inserted.
\* payment_reference defaults to a fresh uuid4; the model uses the pk as
\* that fresh token.
NewPayment(pk, bid, amount) ==
    [pk |-> pk, booking |-> bid, payment_reference |-> pk, amount |-> amount,
     currency |-> "ETB", status |-> "pending", chapa_checkout_url |-> FALSE,
     paid_at |-> NULL, webhook_verified |-> FALSE, verification_attempts |-> 0,
     chapa_response |-> NoData]

\* save() as it would be if the status were written by a queryset update
\* without a filter on the primary key.
save_unfiltered(pay) ==
    [k \in DOMAIN payments |->
        IF k = pay.pk THEN pay ELSE [payments[k] EXCEPT !.status = pay.status]]

\* Payment.save(): the whole in-memory copy replaces the stored row.
save(pay) == [payments EXCEPT ![pay.pk] = pay]

\* payment.chapa_response.update(data): dict.update stores the payload's
\* value under each of its keys, in place of the value an earlier payload
\* left under the same key.  The model keeps the key 'status', which every
\* verify answer and webhook payload carries.
chapa_response_update(pay, status) == [pay EXCEPT !.chapa_response = status]

\* mark_as_completed as it would be without the assignment of paid_at.
mark_as_completed_status_only(pay, now) == [pay EXCEPT !.status = "completed"]

\* Payment.mark_as_completed, the Payment half: the fields it assigns
\* before its self.save().
mark_as_completed(pay, now) ==
    [pay EXCEPT !.status = "completed", !.paid_at = now]

\* mark_as_failed as it would be if it stored the reported status.
mark_as_cancelled(pay) == [pay EXCEPT !.status = "cancelled"]

\* mark_as_failed as it would be without the assignment of the status.
mark_as_failed_noop(pay) == [pay EXCEPT !.status = @]

\* Payment.mark_as_failed: the fields it assigns before its self.save().
mark_as_failed(pay) == [pay EXCEPT !.status = "failed"]

\* The lookup as it would be if it ignored the reference and took any row.
ByReference_any(ref) == {k \in DOMAIN payments : ref # NoRef}

\* Payment.objects.get(payment_reference=ref): the pks that match.
ByReference(ref) == {k \in DOMAIN payments : payments[k].payment_reference = ref}

----------------------------------------------------------------------------
\* Worker slots.

Procs == DOMAIN proc

Idle(p) == proc[p].pc = "idle"

Finish(p, r) == proc' = [proc EXCEPT ![p].pc = "done", ![p].resp = r]

\* Requests in flight that will still call timezone.now() once.
PendingTicks ==
    Cardinality({q \in Procs : /\ proc[q].pc \in {"attempt", "apply"}
                               /\ proc[q].gw = "success"})

\* The model stops accepting success signals when the clock is used up.
ClockBudget(sig) == sig = "success" => clock + PendingTicks < MaxClock

\* The model stops accepting initiate requests when more than
\* MaxPaidBookings bookings would have a Payment row.
PaymentBudget(bid) ==
    /\ NextPaymentId <= MaxPayments
    /\ Cardinality(({payments[k].booking : k \in DOMAIN payments} \ {0})
                   \cup {proc[q].bid : q \in {r \in Procs : proc[r].pc = "create"}}
                   \cup {bid}) <= MaxPaidBookings

----------------------------------------------------------------------------
\* Booking requests (BookingViewSet).  Each makes one store access.

Request(op, caller, bid, ref, gw) ==
    [IdleProc EXCEPT !.op = op, !.caller = caller, !.bid = bid, !.ref = ref,
                     !.gw = gw]

Done(req, r) == [req EXCEPT !.pc = "done", !.resp = r]

\* BookingViewSet.get_queryset: a non-staff user sees the bookings they
\* made and the bookings of their listings.
get_queryset(caller) ==
    {b \in DOMAIN bookings :
        \/ bookings[b].guest = caller
        \/ bookings[b].listing = 1 /\ ListingHost = caller}

\* The statuses a create request may carry: status is a writable field of
\* BookingSerializer, pending when the request leaves it out.
CreateStatuses == {"pending", "confirmed", "completed"}

\* BookingViewSet.create: BookingSerializer.validate, perform_create,
\* Booking.save.  No step compares the dates with other bookings.
perform_create(p, caller, ci, co, n, price, st) ==
    /\ Idle(p)
    /\ LET req == Request("booking_create", caller, 0, NoRef, "none")
           v == validate(ci, co, n)
           row == [listing |-> 1, guest |-> caller, check_in_date |-> ci,
                   check_out_date |-> co, number_of_guests |-> n,
                   total_price |-> price, status |-> st]
       IN IF v # "ok"
          THEN /\ proc' = [proc EXCEPT ![p] = Done(req, v)]
               /\ UNCHANGED bookings
          ELSE /\ NextBookingId <= MaxBookings
               /\ clean(row)
               /\ bookings' = bookings @@ (NextBookingId :> row)
               /\ proc' = [proc EXCEPT
                      ![p] = Done([req EXCEPT !.bid = NextBookingId], "created")]
    /\ UNCHANGED <<listing_max_guests, payments, clock, confirmation_emails,
                   failed_emails, confirmed_once>>

\* The checks of confirm as they would be without the test of the status.
confirm_check_any_status(caller, bid) ==
    IF bid \notin get_queryset(caller) THEN "not_found"
    ELSE IF ListingHost # caller THEN "forbidden"
    ELSE IF ~clean(bookings[bid]) THEN "server_error"
    ELSE "ok"

\* The response of BookingViewSet.confirm for the booking as stored.
confirm_check(caller, bid) ==
    IF bid \notin get_queryset(caller) THEN "not_found"
    ELSE IF ListingHost # caller THEN "forbidden"
    ELSE IF bookings[bid].status # "pending" THEN "bad_request"
    ELSE IF ~clean(bookings[bid]) THEN "server_error"
    ELSE "ok"

\* BookingViewSet.confirm
confirm(p, caller, bid) ==
    /\ Idle(p)
    /\ LET req == Request("confirm", caller, bid, NoRef, "none")
           r == confirm_check(caller, bid)
       IN /\ proc' = [proc EXCEPT ![p] = Done(req, r)]
          /\ IF r = "ok"
             THEN /\ bookings' = [bookings EXCEPT ![bid].status = "confirmed"]
                  /\ confirmed_once' = [confirmed_once EXCEPT ![bid] = TRUE]
             ELSE UNCHANGED <<bookings, confirmed_once>>
    /\ UNCHANGED <<listing_max_guests, payments, clock, confirmation_emails,
                   failed_emails>>

\* The checks of cancel as they would be without the test of the status.
cancel_check_any_status(caller, bid) ==
    IF bid \notin get_queryset(caller) THEN "not_found"
    ELSE IF bookings[bid].guest # caller /\ ListingHost # caller THEN "forbidden"
    ELSE IF ~clean(bookings[bid]) THEN "server_error"
    ELSE "ok"

\* The response of BookingViewSet.cancel for the booking as stored.
cancel_check(caller, bid) ==
    IF bid \notin get_queryset(caller) THEN "not_found"
    ELSE IF bookings[bid].guest # caller /\ ListingHost # caller THEN "forbidden"
    ELSE IF bookings[bid].status \in {"cancelled", "completed"} THEN "bad_request"
    ELSE IF ~clean(bookings[bid]) THEN "server_error"
    ELSE "ok"

\* BookingViewSet.cancel
cancel(p, caller, bid) ==
    /\ Idle(p)
    /\ LET req == Request("cancel", caller, bid, NoRef, "none")
           r == cancel_check(caller, bid)
       IN /\ proc' = [proc EXCEPT ![p] = Done(req, r)]
          /\ IF r = "ok"
             THEN bookings' = [bookings EXCEPT ![bid].status = "cancelled"]
             ELSE UNCHANGED bookings
    /\ UNCHANGED <<listing_max_guests, payments, clock, confirmation_emails,
                   failed_emails, confirmed_once>>

\* ListingViewSet.update of max_guests (ListingSerializer.validate_max_guests
\* wants at least 1); any authenticated user may send it.
listing_update(p, caller, m) ==
    /\ Idle(p)
    /\ m >= 1
    /\ listing_max_guests' = m
    /\ proc' = [proc EXCEPT
           ![p] = Done(Request("listing_update", caller, 0, NoRef, "none"), "ok")]
    /\ UNCHANGED <<bookings, payments, clock, confirmation_emails,
                   failed_emails, confirmed_once>>

\* BookingSerializer.validate on the data of an update: a check is made
\* only when the fields it compares are both in the data (a PATCH may leave
\* any of them out).
validate_partial(ci, co, n, listing_id) ==
    IF ci # Absent /\ co # Absent /\ co <= ci THEN "invalid_dates"
    ELSE IF listing_id # Absent /\ n # Absent /\ n > listing_max_guests
    THEN "capacity_exceeded"
    ELSE "ok"

\* ModelSerializer.update: the fields of the data are set on the instance.
set_fields(b, ci, co, n, st) ==
    [b EXCEPT !.check_in_date = IF ci # Absent THEN ci ELSE @,
              !.check_out_date = IF co # Absent THEN co ELSE @,
              !.number_of_guests = IF n # Absent THEN n ELSE @,
              !.status = IF st # "absent" THEN st ELSE @]

\* BookingViewSet.update / partial_update (ModelViewSet): validate, set the
\* fields, Booking.save.  When clean() raises in save(), the request ends
\* with a server error and nothing is written.
update(p, caller, bid, ci, co, n, listing_id, st) ==
    /\ Idle(p)
    /\ LET req == Request("update", caller, bid, NoRef, "none")
           v == validate_partial(ci, co, n, listing_id)
       IN IF bid \notin get_queryset(caller)
          THEN /\ proc' = [proc EXCEPT ![p] = Done(req, "not_found")]
               /\ UNCHANGED <<bookings, confirmed_once>>
          ELSE IF v # "ok"
          THEN /\ proc' = [proc EXCEPT ![p] = Done(req, v)]
               /\ UNCHANGED <<bookings, confirmed_once>>
          ELSE LET row == set_fields(bookings[bid], ci, co, n, st)
               IN IF ~clean(row)
                  THEN /\ proc' = [proc EXCEPT ![p] = Done(req, "server_error")]
                       /\ UNCHANGED <<bookings, confirmed_once>>
                  ELSE /\ bookings' = [bookings EXCEPT ![bid] = row]
                       /\ confirmed_once' =
                              [confirmed_once EXCEPT ![bid] =
                                  @ \/ (/\ bookings[bid].status # "confirmed"
                                        /\ row.status = "confirmed")]
                       /\ proc' = [proc EXCEPT ![p] = Done(req, "ok")]
    /\ UNCHANGED <<listing_max_guests, payments, clock, confirmation_emails,
                   failed_emails>>

\* A row the database no longer holds.  Its primary key stays used: the
\* key sequence does not hand it out again.
DeletedBooking ==
    [listing |-> 0, guest |-> "none", check_in_date |-> 0, check_out_date |-> 0,
     number_of_guests |-> 0, total_price |-> 0, status |-> "deleted"]

DeletedPayment(pk) ==
    [pk |-> pk, booking |-> 0, payment_reference |-> NoRef, amount |-> 0,
     currency |-> "ETB", status |-> "deleted", chapa_checkout_url |-> FALSE,
     paid_at |-> NULL, webhook_verified |-> FALSE, verification_attempts |-> 0,
     chapa_response |-> NoData]

\* BookingViewSet.destroy (ModelViewSet): instance.delete().  Payment.booking
\* has on_delete=CASCADE, so the Payment of the booking goes with it.
destroy(p, caller, bid) ==
    /\ Idle(p)
    /\ LET req == Request("destroy", caller, bid, NoRef, "none")
       IN IF bid \notin get_queryset(caller)
          THEN /\ proc' = [proc EXCEPT ![p] = Done(req, "not_found")]
               /\ UNCHANGED <<bookings, payments>>
          ELSE /\ bookings' = [bookings EXCEPT ![bid] = DeletedBooking]
               /\ payments' = [k \in DOMAIN payments |->
                                 IF payments[k].booking = bid
                                 THEN DeletedPayment(k) ELSE payments[k]]
               /\ proc' = [proc EXCEPT ![p] = Done(req, "deleted")]
    /\ UNCHANGED <<listing_max_guests, clock, confirmation_emails,
                   failed_emails, confirmed_once>>

----------------------------------------------------------------------------
\* PaymentViewSet.initiate and ChapaService.create_payment_for_booking.

\* The checks of initiate as they would be if the booking were looked up
\* by its id alone.
initiate_check_any_owner(caller, bid, customer_ok) ==
    IF bid \notin DOMAIN bookings \/ bookings[bid].status = "deleted"
    THEN "not_found"
    ELSE IF \E k \in PaymentsOf(bid) : is_successful(payments[k])
    THEN "already_paid"
    ELSE IF ~customer_ok THEN "bad_request"
    ELSE "ok"

\* The checks of PaymentViewSet.initiate before it calls the service.
initiate_check(caller, bid, customer_ok) ==
    IF bid \notin DOMAIN bookings \/ bookings[bid].guest # caller
    THEN "not_found"
    ELSE IF \E k \in PaymentsOf(bid) : is_successful(payments[k])
    THEN "already_paid"
    ELSE IF ~customer_ok THEN "bad_request"
    ELSE "ok"

\* PaymentViewSet.initiate: load the caller's booking and run the checks.
\* gw is the answer Chapa would give this request's initialize call.
initiate(p, caller, bid, customer_ok, gw) ==
    /\ Idle(p)
    /\ LET req == Request("initiate", caller, bid, NoRef, "none")
           r == initiate_check(caller, bid, customer_ok)
       IN /\ r = "ok" => PaymentBudget(bid)
          /\ proc' = [proc EXCEPT ![p] =
              IF r = "ok"
              THEN [req EXCEPT !.pc = "create", !.gw = gw,
                               !.amount = bookings[bid].total_price]
              ELSE Done(req, r)]
    /\ UNCHANGED store

\* The INSERT check as it would be without the unique constraint (a plain
\* ForeignKey).
booking_unique_off(bid) == bid \in BookingIds

\* The unique constraint of the OneToOneField Payment.booking: an INSERT
\* passes when no Payment row references the booking yet.
booking_unique(bid) == PaymentsOf(bid) = {}

\* create_payment_for_booking: Payment.objects.create.  An IntegrityError
\* is caught by the method's except clause.
create_payment_for_booking_create(p) ==
    /\ proc[p].op = "initiate" /\ proc[p].pc = "create"
    /\ IF booking_unique(proc[p].bid)
       THEN /\ NextPaymentId <= MaxPayments
            /\ LET pay == NewPayment(NextPaymentId, proc[p].bid, proc[p].amount)
               IN /\ payments' = payments @@ (pay.pk :> pay)
                  /\ proc' = [proc EXCEPT ![p].pc = "gateway", ![p].pay = pay]
       ELSE /\ Finish(p, "creation_failed")
            /\ UNCHANGED payments
    /\ UNCHANGED <<listing_max_guests, bookings, clock, confirmation_emails,
                   failed_emails, confirmed_once>>

\* The gateway step as it would be if initiate_payment repeated the POST
\* once after a network error.
create_payment_for_booking_gateway_retry(p) ==
    /\ proc[p].op = "initiate" /\ proc[p].pc = "gateway"
    /\ LET pay == IF proc[p].gw = "accept"
                  THEN [proc[p].pay EXCEPT !.chapa_checkout_url = TRUE,
                                           !.status = "processing"]
                  ELSE mark_as_failed(proc[p].pay)
       IN /\ payments' = save(pay)
          /\ proc' = [proc EXCEPT
                 ![p].pc = "done", ![p].pay = pay,
                 ![p].gateway_calls = IF proc[p].gw = "network" THEN @ + 2
                                      ELSE @ + 1,
                 ![p].resp = IF proc[p].gw = "accept" THEN "ok"
                             ELSE "initiate_failed"]
    /\ UNCHANGED <<listing_max_guests, bookings, clock, confirmation_emails,
                   failed_emails, confirmed_once>>

\* create_payment_for_booking: initiate_payment and the update of the
\* Payment from its answer.
create_payment_for_booking_gateway(p) ==
    /\ proc[p].op = "initiate" /\ proc[p].pc = "gateway"
    /\ LET pay == IF proc[p].gw = "accept"
                  THEN [proc[p].pay EXCEPT !.chapa_checkout_url = TRUE,
                                           !.status = "processing"]
                  ELSE mark_as_failed(proc[p].pay)
       IN /\ payments' = save(pay)
          /\ proc' = [proc EXCEPT
                 ![p].pc = "done", ![p].pay = pay,
                 ![p].gateway_calls = @ + 1,
                 ![p].resp = IF proc[p].gw = "accept" THEN "ok"
                             ELSE "initiate_failed"]
    /\ UNCHANGED <<listing_max_guests, bookings, clock, confirmation_emails,
                   failed_emails, confirmed_once>>

----------------------------------------------------------------------------
\* PaymentViewSet.verify / ChapaService.process_payment_verification and
\* PaymentViewSet.webhook / ChapaService.handle_webhook.

\* PaymentViewSet.verify: Payment.objects.get(payment_reference=ref,
\* booking__guest=request.user).  gw is what Chapa will answer.
verify(p, caller, ref, gw) ==
    /\ Idle(p)
    /\ ClockBudget(gw)
    /\ LET req == Request("verify", caller, 0, ref, "none")
           found == {k \in ByReference(ref) :
                        bookings[payments[k].booking].guest = caller}
       IN IF ref = NoRef
          THEN proc' = [proc EXCEPT ![p] = Done(req, "bad_request")]
          ELSE IF found = {}
          THEN proc' = [proc EXCEPT ![p] = Done(req, "not_found")]
          ELSE \E k \in found :
                  /\ payments[k].verification_attempts < MaxAttempts
                  /\ proc' = [proc EXCEPT ![p] =
                         [req EXCEPT !.pc = "attempt", !.gw = gw,
                                     !.pay = payments[k],
                                     !.loaded = payments[k].status]]
    /\ UNCHANGED store

\* process_payment_verification: count the attempt and save.
process_payment_verification_attempt(p) ==
    /\ proc[p].op = "verify" /\ proc[p].pc = "attempt"
    /\ LET pay == [proc[p].pay EXCEPT !.verification_attempts = @ + 1]
       IN /\ payments' = save(pay)
          /\ proc' = [proc EXCEPT ![p].pc = "apply", ![p].pay = pay]
    /\ UNCHANGED <<listing_max_guests, bookings, clock, confirmation_emails,
                   failed_emails, confirmed_once>>

\* PaymentViewSet.webhook / handle_webhook: the lookup by tx_ref.
webhook(p, ref, status) ==
    /\ Idle(p)
    /\ ClockBudget(status)
    /\ LET req == Request("webhook", "gateway", 0, ref, "none")
       IN IF ref = NoRef
          THEN proc' = [proc EXCEPT ![p] = Done(req, "missing_reference")]
          ELSE IF ByReference(ref) = {}
          THEN proc' = [proc EXCEPT ![p] = Done(req, "payment_not_found")]
          ELSE \E k \in ByReference(ref) :
                  proc' = [proc EXCEPT ![p] =
                      [req EXCEPT !.pc = "apply", !.gw = status,
                                  !.pay = payments[k],
                                  !.loaded = payments[k].status]]
    /\ UNCHANGED store

\* The branch on the reported status that process_payment_verification and
\* handle_webhook share: mark_as_completed up to its self.save(),
\* mark_as_failed, or a plain save.
apply_status(p, calls) ==
    LET sig == proc[p].gw
        loaded == chapa_response_update(proc[p].pay, sig)
    IN IF sig = "success"
       THEN LET pay == mark_as_completed(loaded, clock + 1)
            IN /\ clock' = clock + 1
               /\ payments' = save(pay)
               /\ proc' = [proc EXCEPT ![p].pc = "booking", ![p].pay = pay,
                                       ![p].gateway_calls = calls]
       ELSE IF sig \in {"failed", "cancelled"}
       THEN LET pay == mark_as_failed(loaded)
            IN /\ payments' = save(pay)
               /\ proc' = [proc EXCEPT ![p].pc = "done", ![p].pay = pay,
                                       ![p].gateway_calls = calls,
                                       ![p].resp = "failed"]
               /\ UNCHANGED clock
       ELSE /\ payments' = save(loaded)
            /\ proc' = [proc EXCEPT ![p].pc = "done", ![p].pay = loaded,
                                    ![p].gateway_calls = calls,
                                    ![p].resp = "pending"]
            /\ UNCHANGED clock

\* process_payment_verification: verify_payment and the branch on its
\* answer.  A failed call returns before anything is written.
process_payment_verification_apply(p) ==
    /\ proc[p].op = "verify" /\ proc[p].pc = "apply"
    /\ IF proc[p].gw \in {"rejected", "network"}
       THEN /\ proc' = [proc EXCEPT ![p].pc = "done", ![p].gateway_calls = 1,
                                    ![p].resp = "verification_failed"]
            /\ UNCHANGED <<payments, clock>>
       ELSE apply_status(p, 1)
    /\ UNCHANGED <<listing_max_guests, bookings, confirmation_emails,
                   failed_emails, confirmed_once>>

\* handle_webhook: the branch on the payload's status.
handle_webhook_apply(p) ==
    /\ proc[p].op = "webhook" /\ proc[p].pc = "apply"
    /\ apply_status(p, 0)
    /\ UNCHANGED <<listing_max_guests, bookings, confirmation_emails,
                   failed_emails, confirmed_once>>

\* Payment.mark_as_completed, the Booking half: self.booking is fetched,
\* set to confirmed and saved.  Booking.save runs clean(); when it raises,
\* the caller's except clause turns it into an error result.
mark_as_completed_booking(p) ==
    /\ proc[p].op \in {"verify", "webhook"} /\ proc[p].pc = "booking"
    /\ LET bid == proc[p].pay.booking
           b == [bookings[bid] EXCEPT !.status = "confirmed"]
       IN IF clean(b)
          THEN /\ bookings' = [bookings EXCEPT ![bid] = b]
               /\ confirmed_once' =
                      [confirmed_once EXCEPT ![bid] =
                          @ \/ bookings[bid].status # "confirmed"]
               /\ proc' = [proc EXCEPT ![p].pc = "flag"]
          ELSE /\ Finish(p, "error")
               /\ UNCHANGED <<bookings, confirmed_once>>
    /\ UNCHANGED <<listing_max_guests, payments, clock, confirmation_emails,
                   failed_emails>>

\* After mark_as_completed returned: webhook_verified = True, save, and the
\* view's send_booking_confirmation_email.
set_webhook_verified(p) ==
    /\ proc[p].op \in {"verify", "webhook"} /\ proc[p].pc = "flag"
    /\ LET pay == [proc[p].pay EXCEPT !.webhook_verified = TRUE]
       IN /\ payments' = save(pay)
          /\ confirmation_emails' = [confirmation_emails EXCEPT ![pay.pk] = @ + 1]
          /\ proc' = [proc EXCEPT ![p].pc = "done", ![p].pay = pay,
                                  ![p].resp = "completed"]
    /\ UNCHANGED <<listing_max_guests, bookings, clock, failed_emails,
                   confirmed_once>>

\* The response is sent and the worker takes the next request.
Respond(p) ==
    /\ proc[p].pc = "done"
    /\ proc' = [proc EXCEPT ![p] = IdleProc]
    /\ UNCHANGED store

----------------------------------------------------------------------------
\* Specifications.

InitStore ==
    /\ listing_max_guests = MaxGuests
    /\ bookings = [b \in {} |-> NoPay]
    /\ payments = [k \in {} |-> NoPay]
    /\ clock = 0
    /\ confirmation_emails = [k \in PaymentIds |-> 0]
    /\ failed_emails = [k \in PaymentIds |-> 0]
    /\ confirmed_once = [b \in BookingIds |-> FALSE]

\* One request at a time.
Init == InitStore /\ proc = [p \in {1} |-> IdleProc]

\* Two workers serve payment requests concurrently.  The store holds one
\* pending booking, as perform_create leaves it.
InitConc ==
    /\ listing_max_guests = MaxGuests
    /\ bookings = (1 :> [listing |-> 1, guest |-> "alice", check_in_date |-> 1,
                         check_out_date |-> 2, number_of_guests |-> MaxGuests,
                         total_price |-> 1, status |-> "pending"])
    /\ payments = [k \in {} |-> NoPay]
    /\ clock = 0
    /\ confirmation_emails = [k \in PaymentIds |-> 0]
    /\ failed_emails = [k \in PaymentIds |-> 0]
    /\ confirmed_once = [b \in BookingIds |-> FALSE]
    /\ proc = [p \in {1, 2} |-> IdleProc]

Next ==
    \E p \in Procs :
        \/ \E caller \in Guests, ci \in Dates, co \in Dates,
              n \in {MaxGuests, MaxGuests + 1}, price \in Prices,
              st \in CreateStatuses :
                perform_create(p, caller, ci, co, n, price, st)
        \/ \E caller \in Users, bid \in BookingIds : confirm(p, caller, bid)
        \/ \E caller \in Users, bid \in BookingIds : cancel(p, caller, bid)
        \/ \E caller \in Users, m \in GuestCounts : listing_update(p, caller, m)
        \/ \E caller \in Users, bid \in BookingIds, ok \in BOOLEAN,
              gw \in InitiateOutcomes : initiate(p, caller, bid, ok, gw)
        \/ create_payment_for_booking_create(p)
        \/ create_payment_for_booking_gateway(p)
        \/ \E caller \in Users, ref \in {NoRef} \cup PaymentIds,
              gw \in VerifyOutcomes : verify(p, caller, ref, gw)
        \/ process_payment_verification_attempt(p)
        \/ process_payment_verification_apply(p)
        \/ \E ref \in {NoRef} \cup PaymentIds, status \in GatewayStatuses :
                webhook(p, ref, status)
        \/ handle_webhook_apply(p)
        \/ mark_as_completed_booking(p)
        \/ set_webhook_verified(p)
        \/ Respond(p)

\* The statuses the gateway reports to the two concurrent workers: one for
\* each branch of the handlers.
ConcStatuses == {"success", "failed", "pending"}

\* The payment requests of the booking's guest and the gateway's webhooks.
NextConc ==
    \E p \in Procs :
        \/ \E caller \in Guests, bid \in DOMAIN bookings, gw \in InitiateOutcomes :
                initiate(p, caller, bid, TRUE, gw)
        \/ create_payment_for_booking_create(p)
        \/ create_payment_for_booking_gateway(p)
        \/ \E caller \in Guests, ref \in PaymentIds,
              gw \in ConcStatuses \cup {"network"} :
                verify(p, caller, ref, gw)
        \/ process_payment_verification_attempt(p)
        \/ process_payment_verification_apply(p)
        \/ \E ref \in PaymentIds, status \in ConcStatuses :
                webhook(p, ref, status)
        \/ handle_webhook_apply(p)
        \/ mark_as_completed_booking(p)
        \/ set_webhook_verified(p)
        \/ Respond(p)

\* The whole of BookingViewSet's create, update and destroy (update and
\* destroy are inherited from ModelViewSet), the listing update, and the
\* initiate and webhook requests that give a booking its Payment.
NextCrud ==
    \E p \in Procs :
        \/ \E caller \in Guests, ci \in Dates, co \in Dates,
              n \in {MaxGuests, MaxGuests + 1}, price \in Prices,
              st \in CreateStatuses :
                perform_create(p, caller, ci, co, n, price, st)
        \/ \E caller \in Users, m \in GuestCounts : listing_update(p, caller, m)
        \/ \E caller \in Users, bid \in BookingIds,
              ci \in {Absent} \cup Dates, co \in {Absent} \cup Dates,
              n \in {Absent, MaxGuests, MaxGuests + 1},
              listing_id \in {Absent, 1} :
                update(p, caller, bid, ci, co, n, listing_id, "absent")
        \/ \E caller \in Users, bid \in BookingIds,
              st \in BOOKING_STATUS_CHOICES :
                update(p, caller, bid, Absent, Absent, Absent, Absent, st)
        \/ \E caller \in Users, bid \in BookingIds : destroy(p, caller, bid)
        \/ \E caller \in Guests, bid \in BookingIds, gw \in InitiateOutcomes :
                initiate(p, caller, bid, TRUE, gw)
        \/ create_payment_for_booking_create(p)
        \/ create_payment_for_booking_gateway(p)
        \/ \E ref \in PaymentIds, status \in {"success", "failed"} :
                webhook(p, ref, status)
        \/ handle_webhook_apply(p)
        \/ mark_as_completed_booking(p)
        \/ set_webhook_verified(p)
        \/ Respond(p)

\* Two bookings of one guest, each with a Payment the gateway accepted, as
\* two create requests and two initiate requests leave them.
InitTwo ==
    /\ listing_max_guests = MaxGuests
    /\ bookings = [b \in 1..2 |->
                     [listing |-> 1, guest |-> "alice", check_in_date |-> 1,
                      check_out_date |-> 2, number_of_guests |-> MaxGuests,
                      total_price |-> 1, status |-> "pending"]]
    /\ payments = [k \in 1..2 |->
                     [NewPayment(k, k, 1) EXCEPT !.status = "processing",
                                                 !.chapa_checkout_url = TRUE]]
    /\ clock = 0
    /\ confirmation_emails = [k \in PaymentIds |-> 0]
    /\ failed_emails = [k \in PaymentIds |-> 0]
    /\ confirmed_once = [b \in BookingIds |-> FALSE]
    /\ proc = [p \in {1} |-> IdleProc]

\* The verify requests of the guest and the gateway's webhooks.
NextTwo ==
    \E p \in Procs :
        \/ \E caller \in Guests, ref \in PaymentIds, gw \in VerifyOutcomes :
                verify(p, caller, ref, gw)
        \/ process_payment_verification_attempt(p)
        \/ process_payment_verification_apply(p)
        \/ \E ref \in PaymentIds, status \in GatewayStatuses :
                webhook(p, ref, status)
        \/ handle_webhook_apply(p)
        \/ mark_as_completed_booking(p)
        \/ set_webhook_verified(p)
        \/ Respond(p)

\* Two pending bookings of one guest with different prices, as two create
\* requests leave them, and no Payment yet.
InitAmount ==
    /\ listing_max_guests = MaxGuests
    /\ bookings = [b \in 1..2 |->
                     [listing |-> 1, guest |-> "alice", check_in_date |-> 1,
                      check_out_date |-> 2, number_of_guests |-> MaxGuests,
                      total_price |-> b, status |-> "pending"]]
    /\ payments = [k \in {} |-> NoPay]
    /\ clock = 0
    /\ confirmation_emails = [k \in PaymentIds |-> 0]
    /\ failed_emails = [k \in PaymentIds |-> 0]
    /\ confirmed_once = [b \in BookingIds |-> FALSE]
    /\ proc = [p \in {1} |-> IdleProc]

\* The guest's initiate and verify requests and the gateway's webhooks.
NextAmount ==
    \E p \in Procs :
        \/ \E caller \in Guests, bid \in BookingIds, gw \in InitiateOutcomes :
                initiate(p, caller, bid, TRUE, gw)
        \/ create_payment_for_booking_create(p)
        \/ create_payment_for_booking_gateway(p)
        \/ \E caller \in Guests, ref \in PaymentIds, gw \in VerifyOutcomes :
                verify(p, caller, ref, gw)
        \/ process_payment_verification_attempt(p)
        \/ process_payment_verification_apply(p)
        \/ \E ref \in PaymentIds, status \in GatewayStatuses :
                webhook(p, ref, status)
        \/ handle_webhook_apply(p)
        \/ mark_as_completed_booking(p)
        \/ set_webhook_verified(p)
        \/ Respond(p)

Spec == Init /\ [][Next]_vars

SpecAmount == InitAmount /\ [][NextAmount]_vars

SpecTwo == InitTwo /\ [][NextTwo]_vars

SpecCrud == Init /\ [][NextCrud]_vars

SpecConc == InitConc /\ [][NextConc]_vars

----------------------------------------------------------------------------
\* Properties.

\* The step of worker p that ends its request.
Finishes(p) == proc[p].pc # "done" /\ proc'[p].pc = "done"

\* C1: monotonic completion: once a Payment's status is completed, no later
\* verify result or webhook changes it.
MonotonicCompletion ==
    [][\A k \in DOMAIN payments :
          payments[k].status = "completed" => payments'[k].status = "completed"]_vars

\* C2: paid_at is written once: a Payment whose paid_at is set keeps that
\* value through every later signal.
PaidAtWrittenOnce ==
    [][\A k \in DOMAIN payments :
          payments[k].paid_at # NULL => payments'[k].paid_at = payments[k].paid_at]_vars

\* C3: the payment-completed confirmation is sent at most once for every
\* Payment, however many success signals arrive.
ConfirmationSentOnce ==
    \A k \in PaymentIds : confirmation_emails[k] <= 1

\* C4: a webhook and a verify for the same Payment may interleave: no
\* request writes a copy it loaded earlier (status processing, paid_at
\* empty) over the Payment another request has completed meanwhile.
NoStaleWriteBack ==
    [][\A p \in Procs :
          (/\ proc[p].op \in {"verify", "webhook"}
           /\ proc[p].loaded = "processing"
           /\ proc'[p] # proc[p]
           /\ payments[proc[p].pay.pk].status = "completed"
           /\ payments[proc[p].pay.pk].paid_at # NULL)
          => ~(/\ payments'[proc[p].pay.pk].status = "processing"
               /\ payments'[proc[p].pay.pk].paid_at = NULL)]_vars

\* Half-open date ranges [check_in, check_out) intersect.
Overlap(a, b) ==
    /\ a.check_in_date < b.check_out_date
    /\ b.check_in_date < a.check_out_date

\* C5: overlap invariant: no two non-cancelled Bookings of the same Listing
\* have intersecting [check_in, check_out) ranges.
OverlapInvariant ==
    \A a \in DOMAIN bookings, b \in DOMAIN bookings :
        (/\ a # b
         /\ bookings[a].listing = bookings[b].listing
         /\ bookings[a].status # "cancelled"
         /\ bookings[b].status # "cancelled")
        => ~Overlap(bookings[a], bookings[b])

\* C6: exactly-once confirmation: a Booking that has moved into confirmed
\* once and has left that status is not moved into confirmed again.
ConfirmedAtMostOnce ==
    [][\A b \in DOMAIN bookings :
          (confirmed_once[b] /\ bookings[b].status # "confirmed")
          => bookings'[b].status # "confirmed"]_vars

\* C7: the completion is all-or-nothing: when the Booking write of a
\* completion fails, the Payment is not left completed.
AtomicCompletion ==
    \A p \in Procs :
        (proc[p].pc = "done" /\ proc[p].resp = "error")
        => payments[proc[p].pay.pk].status # "completed"

\* C8: happy path: an initiate the gateway accepted leaves the new Payment
\* processing with its checkout handle; a success signal for a processing
\* Payment leaves it completed with paid_at set and its Booking confirmed.
HappyPath ==
    \A p \in Procs :
        /\ (/\ proc[p].pc = "done"
            /\ proc[p].op = "initiate"
            /\ proc[p].gateway_calls = 1
            /\ proc[p].gw = "accept")
           => /\ proc[p].resp = "ok"
              /\ payments[proc[p].pay.pk].status = "processing"
              /\ payments[proc[p].pay.pk].chapa_checkout_url
        /\ (/\ proc[p].pc = "done"
            /\ proc[p].op \in {"verify", "webhook"}
            /\ proc[p].gw = "success"
            /\ proc[p].loaded = "processing")
           => /\ payments[proc[p].pay.pk].status = "completed"
              /\ payments[proc[p].pay.pk].paid_at # NULL
              /\ bookings[proc[p].pay.booking].status = "confirmed"

\* C9: when every Payment of a pending Booking has failed, a new initiate
\* that the gateway would accept succeeds and leaves a processing Payment
\* for the Booking.
ReinitiateAfterFailure ==
    [][\A p \in Procs :
          (/\ Finishes(p)
           /\ proc[p].op = "initiate"
           /\ proc[p].gw = "accept"
           /\ bookings[proc[p].bid].status = "pending"
           /\ PaymentsOf(proc[p].bid) # {}
           /\ \A k \in PaymentsOf(proc[p].bid) : payments[k].status = "failed")
          => /\ proc'[p].resp = "ok"
             /\ \E k \in DOMAIN payments' :
                   /\ payments'[k].booking = proc[p].bid
                   /\ payments'[k].status = "processing"]_vars

\* C10: an initiate by the guest of a Booking that has a completed Payment
\* ends at once with the already-paid error: no gateway call, no new
\* Payment, and nothing in the store changes.
AlreadyPaidRejected ==
    [][\A p \in Procs :
          (/\ Idle(p)
           /\ proc'[p].op = "initiate"
           /\ proc'[p].bid \in DOMAIN bookings
           /\ bookings[proc'[p].bid].guest = proc'[p].caller
           /\ \E k \in PaymentsOf(proc'[p].bid) : payments[k].status = "completed")
          => /\ proc'[p].pc = "done"
             /\ proc'[p].resp = "already_paid"
             /\ proc'[p].gateway_calls = 0
             /\ UNCHANGED store]_vars

\* An initiate has been answered with the already-paid error.
AlreadyPaidWitness ==
    \E p \in Procs :
        /\ proc[p].pc = "done"
        /\ proc[p].op = "initiate"
        /\ proc[p].resp = "already_paid"
        /\ \E k \in PaymentsOf(proc[p].bid) : payments[k].status = "completed"

\* C11: an initiate by the guest of a Booking that is cancelled or completed
\* is refused as not eligible: the request creates no Payment and makes no
\* gateway call.
NotEligibleRejected ==
    \A p \in Procs :
        (/\ proc[p].op = "initiate"
         /\ proc[p].bid \in DOMAIN bookings
         /\ bookings[proc[p].bid].guest = proc[p].caller
         /\ bookings[proc[p].bid].status \in {"cancelled", "completed"})
        => /\ proc[p].pay = NoPay
           /\ proc[p].gateway_calls = 0
           /\ proc[p].resp # "ok"

\* C12: an initiate for a Booking whose Payment is processing does not
\* initiate again: it makes no gateway call, creates no Payment and leaves
\* the Payment's status, reference and checkout handle as they are; two
\* initiates racing for one Booking never both reach the gateway call.
NoReinitiate ==
    [][/\ \A p \in Procs :
            (/\ proc'[p].op = "initiate"
             /\ proc'[p] # proc[p]
             /\ proc'[p].bid \in DOMAIN bookings
             /\ \E k \in PaymentsOf(proc'[p].bid) : payments[k].status = "processing")
            => /\ proc'[p].gateway_calls = 0
               /\ proc'[p].resp # "ok"
               /\ DOMAIN payments' = DOMAIN payments
               /\ \A k \in PaymentsOf(proc'[p].bid) :
                     /\ payments'[k].status = payments[k].status
                     /\ payments'[k].payment_reference = payments[k].payment_reference
                     /\ payments'[k].chapa_checkout_url = payments[k].chapa_checkout_url
       /\ \A p \in Procs, q \in Procs :
            (/\ p # q
             /\ proc'[p].op = "initiate" /\ proc'[p].pc = "gateway"
             /\ proc'[q].op = "initiate" /\ proc'[q].pc = "gateway")
            => proc'[p].bid # proc'[q].bid]_vars

\* Two initiates ran for one Booking: one was accepted by the gateway, the
\* other ended without a gateway call while the Payment is processing.
NoReinitiateWitness ==
    \E p \in Procs, q \in Procs :
        /\ p # q
        /\ proc[p].op = "initiate" /\ proc[p].pc = "done" /\ proc[p].resp = "ok"
        /\ proc[q].op = "initiate" /\ proc[q].pc = "done"
        /\ proc[q].resp = "creation_failed" /\ proc[q].gateway_calls = 0
        /\ proc[q].bid = proc[p].bid
        /\ payments[proc[p].pay.pk].status = "processing"

\* Payment statuses from which the code and the gateway expect no further
\* transition.
TerminalStatuses == {"completed", "failed", "cancelled", "refunded"}

\* C13: every Booking has at most one Payment that is not in a terminal
\* status and at most one Payment that is or was completed, also while
\* initiate requests for the same Booking race.
OneLivePaymentPerBooking ==
    \A b \in BookingIds :
        /\ Cardinality({k \in PaymentsOf(b) :
                           payments[k].status \notin TerminalStatuses}) <= 1
        /\ Cardinality({k \in PaymentsOf(b) :
                           \/ payments[k].status = "completed"
                           \/ payments[k].paid_at # NULL}) <= 1

\* Two initiates race for one Booking: one holds the Payment it inserted
\* and is about to call the gateway, the other's INSERT was refused.
OneLivePaymentWitness ==
    \E p \in Procs, q \in Procs :
        /\ proc[p].op = "initiate" /\ proc[p].pc = "gateway"
        /\ payments[proc[p].pay.pk].status \notin TerminalStatuses
        /\ proc[q].op = "initiate" /\ proc[q].pc = "done"
        /\ proc[q].resp = "creation_failed"
        /\ proc[q].bid = proc[p].bid

\* C14: a webhook whose reference matches no Payment is answered with the
\* unknown-reference result and changes nothing: no Payment or Booking
\* field, no new Payment, no notification.
UnknownReferenceNoChange ==
    [][\A p \in Procs :
          (/\ Idle(p)
           /\ proc'[p].op = "webhook"
           /\ proc'[p].ref # NoRef
           /\ \A k \in DOMAIN payments :
                 payments[k].payment_reference # proc'[p].ref)
          => /\ proc'[p].pc = "done"
             /\ proc'[p].resp = "payment_not_found"
             /\ proc'[p].pay = NoPay
             /\ UNCHANGED store]_vars

\* A webhook for a reference that no Payment carries has been answered,
\* while a Payment with another reference is stored.
UnknownReferenceWitness ==
    \E p \in Procs :
        /\ proc[p].op = "webhook" /\ proc[p].pc = "done"
        /\ proc[p].resp = "payment_not_found"
        /\ proc[p].ref # NoRef
        /\ DOMAIN payments # {}
        /\ \A k \in DOMAIN payments : payments[k].payment_reference # proc[p].ref

\* C15: webhook_verified becomes true only by a webhook delivery: no step
\* of a polled verify turns it on, so a Payment completed by a verify has
\* webhook_verified false.
WebhookVerifiedOnlyByWebhook ==
    [][\A p \in Procs :
          (/\ proc[p].op = "verify"
           /\ proc'[p] # proc[p]
           /\ proc[p].pay # NoPay
           /\ ~payments[proc[p].pay.pk].webhook_verified)
          => ~payments'[proc[p].pay.pk].webhook_verified]_vars

\* C16: every verify call for an existing Payment adds exactly one to
\* verification_attempts, whatever the gateway answers: the request's first
\* write adds one, and no later step of the request changes the count.
AttemptsCountedOnce ==
    [][\A p \in Procs :
          (/\ proc[p].op = "verify"
           /\ proc'[p] # proc[p]
           /\ proc[p].pay # NoPay)
          => /\ proc[p].pc = "attempt" =>
                  /\ proc'[p].pc = "apply"
                  /\ payments'[proc[p].pay.pk].verification_attempts =
                        payments[proc[p].pay.pk].verification_attempts + 1
             /\ proc[p].pc \in {"apply", "booking", "flag"} =>
                  payments'[proc[p].pay.pk].verification_attempts =
                        payments[proc[p].pay.pk].verification_attempts
             /\ proc[p].pc = "done" => UNCHANGED store]_vars

\* C17: a gateway call that fails at the network level leaves the Payment
\* in its prior state: a verify keeps Payment.status, paid_at and the
\* Booking's status and returns the retryable result; an initiate does not
\* move its Payment to another status.
NetworkErrorKeepsState ==
    [][\A p \in Procs :
          (/\ proc[p].gw = "network"
           /\ proc'[p] # proc[p]
           /\ proc[p].pay # NoPay
           /\ proc[p].pc \in {"gateway", "attempt", "apply"})
          => /\ payments'[proc[p].pay.pk].status = payments[proc[p].pay.pk].status
             /\ payments'[proc[p].pay.pk].paid_at = payments[proc[p].pay.pk].paid_at
             /\ bookings' = bookings
             /\ (proc[p].op = "verify" /\ proc'[p].pc = "done")
                   => proc'[p].resp = "verification_failed"]_vars

\* C18: a verify result or webhook reporting failed or cancelled for a
\* processing Payment moves the Payment to failed, never to cancelled, and
\* leaves the Booking's status as it is.
FailureSignalFails ==
    [][\A p \in Procs :
          (/\ proc[p].op \in {"verify", "webhook"}
           /\ proc[p].pc = "apply"
           /\ proc[p].gw \in {"failed", "cancelled"}
           /\ proc'[p] # proc[p]
           /\ payments[proc[p].pay.pk].status = "processing")
          => /\ payments'[proc[p].pay.pk].status = "failed"
             /\ proc'[p].pc = "done"
             /\ bookings' = bookings]_vars

\* A cancelled signal has been applied to a Payment that was processing.
FailureSignalWitness ==
    \E p \in Procs :
        /\ proc[p].op \in {"verify", "webhook"} /\ proc[p].pc = "done"
        /\ proc[p].gw = "cancelled"
        /\ proc[p].loaded = "processing"
        /\ payments[proc[p].pay.pk].status = "failed"

\* C19: a verify result or webhook reporting pending or an unrecognised
\* status leaves Payment.status, paid_at and the Booking's status unchanged
\* through every step of the request.
PendingSignalNoChange ==
    [][\A p \in Procs :
          (/\ proc[p].op \in {"verify", "webhook"}
           /\ proc[p].gw \in {"pending", "unknown"}
           /\ proc'[p] # proc[p]
           /\ proc[p].pay # NoPay)
          => /\ payments'[proc[p].pay.pk].status = payments[proc[p].pay.pk].status
             /\ payments'[proc[p].pay.pk].paid_at = payments[proc[p].pay.pk].paid_at
             /\ proc[p].pc = "apply" => proc'[p].resp = "pending"
             /\ bookings' = bookings]_vars

\* C20: when the gateway rejects an initiate, the Payment just created ends
\* failed without a checkout handle, the Booking's status is unchanged and
\* the caller gets the failure.
RejectedInitiateFails ==
    [][\A p \in Procs :
          (/\ proc[p].op = "initiate"
           /\ proc[p].pc = "gateway"
           /\ proc[p].gw = "rejected"
           /\ proc'[p] # proc[p])
          => /\ payments'[proc[p].pay.pk].status = "failed"
             /\ ~payments'[proc[p].pay.pk].chapa_checkout_url
             /\ proc'[p].pc = "done"
             /\ proc'[p].resp = "initiate_failed"
             /\ bookings' = bookings]_vars

\* An initiate the gateway rejected has ended.
RejectedInitiateWitness ==
    \E p \in Procs :
        /\ proc[p].op = "initiate" /\ proc[p].pc = "done"
        /\ proc[p].gw = "rejected"
        /\ proc[p].gateway_calls = 1
        /\ proc[p].resp = "initiate_failed"
        /\ payments[proc[p].pay.pk].status = "failed"
        /\ bookings[proc[p].bid].status = "pending"

\* C21: the payment-failed notification is sent once for each transition of
\* a Payment into failed: when the request that made the transition has
\* ended, the notification for that Payment has been sent.
FailedNotificationSent ==
    \A p \in Procs :
        (/\ proc[p].pc = "done"
         /\ proc[p].resp \in {"failed", "initiate_failed"}
         /\ proc[p].loaded # "failed"
         /\ payments[proc[p].pay.pk].status = "failed")
        => failed_emails[proc[p].pay.pk] >= 1

\* C22: once a Payment exists for a Booking, the booking confirm and cancel
\* actions and the booking update do not change the Booking's status.
StatusWrittenOnlyByPayments ==
    [][\A p \in Procs :
          (/\ Idle(p)
           /\ proc'[p].op \in {"confirm", "cancel", "update"}
           /\ proc'[p].bid \in DOMAIN bookings
           /\ PaymentsOf(proc'[p].bid) # {})
          => bookings'[proc'[p].bid].status = bookings[proc'[p].bid].status]_vars

\* C23: a Booking that a Payment references is never deleted, and its
\* Payment is not removed through it: after every step both rows are still
\* in the store.
PaidBookingNeverDeleted ==
    [][\A b \in DOMAIN bookings :
          (bookings[b] # DeletedBooking /\ PaymentsOf(b) # {})
          => /\ bookings'[b] # DeletedBooking
             /\ \A k \in PaymentsOf(b) : payments'[k].booking = b]_vars

\* C24: a booking create or update whose check_out is not after check_in,
\* or whose guest count exceeds the listing's max_guests at that time, is
\* rejected and nothing is persisted: every row such a request writes has
\* valid dates and fits the listing, and a rejected request leaves the
\* stored Bookings unchanged.
InvalidBookingNeverPersisted ==
    [][\A p \in Procs :
          (Idle(p) /\ proc'[p].op \in {"booking_create", "update"})
          => /\ \A b \in DOMAIN bookings' :
                   (b \notin DOMAIN bookings \/ bookings'[b] # bookings[b])
                   => /\ bookings'[b].check_out_date > bookings'[b].check_in_date
                      /\ bookings'[b].number_of_guests <= listing_max_guests
                      /\ proc'[p].resp \in {"created", "ok"}
             /\ proc'[p].resp \notin {"created", "ok"} => bookings' = bookings]_vars

\* An update that BookingSerializer.validate let through (the PATCH left
\* out a field the check needs) has been rejected by Booking.save.
InvalidBookingWitness ==
    \E p \in Procs :
        /\ proc[p].op = "update" /\ proc[p].pc = "done"
        /\ proc[p].resp = "server_error"
        /\ bookings[proc[p].bid].number_of_guests <= listing_max_guests

\* C25: a success signal is applied only to a processing Payment: reported
\* for a Payment that is failed or pending, it is rejected, the Payment
\* does not become completed and its Booking is not confirmed.
SuccessOnlyFromProcessing ==
    [][\A p \in Procs :
          (/\ proc[p].op \in {"verify", "webhook"}
           /\ proc[p].pc = "apply"
           /\ proc[p].gw = "success"
           /\ proc'[p] # proc[p]
           /\ payments[proc[p].pay.pk].status \in {"failed", "pending"})
          => /\ payments'[proc[p].pay.pk].status # "completed"
             /\ proc'[p].pc = "done"]_vars

\* C26: operations on one Payment are independent of other Payments: no
\* step of a verify or webhook for a Payment changes a field of another
\* Payment or of another Payment's Booking.
PaymentsIndependent ==
    [][\A p \in Procs :
          (/\ proc[p].op \in {"verify", "webhook"}
           /\ proc'[p] # proc[p]
           /\ proc[p].pay # NoPay)
          => \A k \in DOMAIN payments :
                k # proc[p].pay.pk
                => /\ payments'[k] = payments[k]
                   /\ bookings'[payments[k].booking] =
                         bookings[payments[k].booking]]_vars

\* One Payment has been completed and its Booking confirmed, the other
\* Payment has failed and its Booking is still pending.
PaymentsIndependentWitness ==
    \E k \in DOMAIN payments, j \in DOMAIN payments :
        /\ k # j
        /\ payments[k].status = "completed"
        /\ bookings[payments[k].booking].status = "confirmed"
        /\ payments[j].status = "failed"
        /\ bookings[payments[j].booking].status = "pending"

\* C27: the gateway client never retries by itself: an initiate request
\* makes at most one call of the gateway's initialize operation and a verify
\* request at most one call of its verify operation, whether the call
\* succeeds or fails; no other request calls the gateway.
NoClientRetry ==
    \A p \in Procs :
        /\ proc[p].gateway_calls <= 1
        /\ proc[p].op \notin {"initiate", "verify"} => proc[p].gateway_calls = 0

\* An initiate whose gateway call failed at the network level has ended
\* after that one call.
NoClientRetryWitness ==
    \E p \in Procs :
        /\ proc[p].pc = "done"
        /\ proc[p].op = "initiate" /\ proc[p].gw = "network"
        /\ proc[p].resp = "initiate_failed"
        /\ proc[p].gateway_calls = 1

\* C28: a Payment is created in status pending, and a Payment in status
\* processing has a checkout handle stored.
ProcessingHasCheckout ==
    [][/\ \A k \in DOMAIN payments' :
            k \notin DOMAIN payments => payments'[k].status = "pending"
       /\ \A k \in DOMAIN payments' :
            payments'[k].status = "processing" => payments'[k].chapa_checkout_url]_vars

\* A Payment is processing while a request that loaded it before the
\* gateway accepted it is still running.
ProcessingHasCheckoutWitness ==
    \E p \in Procs, k \in DOMAIN payments :
        /\ payments[k].status = "processing"
        /\ payments[k].chapa_checkout_url
        /\ proc[p].op \in {"verify", "webhook"}
        /\ proc[p].pc \in {"attempt", "apply"}
        /\ proc[p].pay.pk = k
        /\ proc[p].loaded = "pending"

\* C29: every newly created Booking starts in status pending, whatever the
\* create request contains.
NewBookingPending ==
    [][\A b \in DOMAIN bookings' :
          b \notin DOMAIN bookings => bookings'[b].status = "pending"]_vars

NeverRefunded ==
    \A k \in DOMAIN payments :
        /\ payments[k].status # "refunded"
        /\ can_be_refunded(payments[k])
              <=> (payments[k].status = "completed" /\ payments[k].paid_at # NULL)

\* A verify or webhook has ended, and a Payment is completed with paid_at
\* set, so that it can be refunded.
NeverRefundedWitness ==
    \E p \in Procs, k \in DOMAIN payments :
        /\ proc[p].op \in {"verify", "webhook"} /\ proc[p].pc = "done"
        /\ proc[p].pay.pk = k
        /\ payments[k].status = "completed" /\ payments[k].paid_at # NULL
        /\ can_be_refunded(payments[k])

\* C32: the stored gateway payload is append-accumulated: what a verify
\* answer or a webhook recorded on a Payment stays recorded, and no later
\* payload replaces it.
PayloadAccumulated ==
    [][\A k \in DOMAIN payments :
          payments[k].chapa_response # NoData
          => payments'[k].chapa_response = payments[k].chapa_response]_vars

\* C33: in every reachable state, under any interleaving of initiate,
\* verify and webhook, a Payment whose status is completed has paid_at set.
CompletedHasPaidAt ==
    \A k \in DOMAIN payments :
        payments[k].status = "completed" => payments[k].paid_at # NULL

\* A Payment is completed while two requests for it are in flight, one of
\* which has written since the other loaded its copy.
CompletedHasPaidAtWitness ==
    \E p \in Procs, q \in Procs, k \in DOMAIN payments :
        /\ p # q
        /\ proc[p].pay.pk = k /\ proc[q].pay.pk = k
        /\ proc[p].op \in {"verify", "webhook"}
        /\ proc[q].op \in {"verify", "webhook"}
        /\ proc[q].pc = "done"
        /\ proc[p].pc \in {"attempt", "apply"}
        /\ proc[p].pay.status # "completed"
        /\ payments[k].status = "completed"

\* C34: verification_attempts is an exact count also under concurrency: the
\* stored count grows by one with every verify call's increment, and no
\* other write of a verify or webhook changes it, so that no increment is
\* lost (stated for requests that loaded the Payment after its initiate
\* ended).
AttemptsExact ==
    [][\A p \in Procs :
          (/\ proc[p].op \in {"verify", "webhook"}
           /\ proc'[p] # proc[p]
           /\ proc[p].pay # NoPay
           /\ \A q \in Procs : proc[q].loaded # "pending")
          => payments'[proc[p].pay.pk].verification_attempts =
                 payments[proc[p].pay.pk].verification_attempts +
                 (IF proc[p].op = "verify" /\ proc[p].pc = "attempt"
                  THEN 1 ELSE 0)]_vars

\* C35: confirm changes a Booking only when the caller is the listing's host
\* and the Booking is pending, and the change is the status confirmed; in
\* every other case it answers with an error and the Bookings stay as they
\* are.
ConfirmOnlyHostOnPending ==
    [][\A p \in Procs :
          (Idle(p) /\ proc'[p].op = "confirm")
          => LET bid == proc'[p].bid
                 caller == proc'[p].caller
                 eligible == /\ bid \in DOMAIN bookings
                             /\ caller = ListingHost
                             /\ bookings[bid].status = "pending"
             IN /\ bookings' # bookings
                   => /\ eligible
                      /\ proc'[p].resp = "ok"
                      /\ bookings' = [bookings EXCEPT ![bid].status = "confirmed"]
                /\ ~eligible
                   => /\ proc'[p].resp \in {"not_found", "forbidden", "bad_request"}
                      /\ bookings' = bookings
                /\ payments' = payments]_vars

\* The host's confirm of a pending Booking has been answered and the
\* Booking is confirmed.
ConfirmOnlyHostOnPendingWitness ==
    \E p \in Procs :
        /\ proc[p].op = "confirm" /\ proc[p].pc = "done"
        /\ proc[p].caller = ListingHost
        /\ proc[p].resp = "ok"
        /\ bookings[proc[p].bid].status = "confirmed"

\* C36: cancel changes a Booking only when the caller is its guest or the
\* listing's host and the Booking is pending or confirmed, and the change is
\* the status cancelled; a cancelled or completed Booking is answered with
\* an error and left as it is; cancel never changes a Payment.
CancelOnlyOpenBooking ==
    [][\A p \in Procs :
          (Idle(p) /\ proc'[p].op = "cancel")
          => LET bid == proc'[p].bid
                 caller == proc'[p].caller
                 allowed == /\ bid \in DOMAIN bookings
                            /\ caller \in {bookings[bid].guest, ListingHost}
                 open == /\ bid \in DOMAIN bookings
                         /\ bookings[bid].status \in {"pending", "confirmed"}
             IN /\ bookings' # bookings
                   => /\ allowed /\ open
                      /\ proc'[p].resp = "ok"
                      /\ bookings' = [bookings EXCEPT ![bid].status = "cancelled"]
                /\ ~(allowed /\ open)
                   => /\ proc'[p].resp \in {"not_found", "forbidden", "bad_request"}
                      /\ bookings' = bookings
                /\ (allowed /\ ~open) => proc'[p].resp = "bad_request"
                /\ payments' = payments]_vars

\* A cancel of a completed Booking that has a Payment has been refused, and
\* another Booking stands cancelled.
CancelOnlyOpenBookingWitness ==
    \E p \in Procs, b \in DOMAIN bookings :
        /\ proc[p].op = "cancel" /\ proc[p].pc = "done"
        /\ proc[p].resp = "bad_request"
        /\ bookings[proc[p].bid].status = "completed"
        /\ PaymentsOf(proc[p].bid) # {}
        /\ bookings[b].status = "cancelled"

\* C37: initiate and verify act only on the caller's own records: an
\* initiate for a Booking of another guest, or a verify for a Payment of
\* another guest's Booking, is answered not-found at once, without a gateway
\* call and without a change to any Payment or Booking.
OwnRecordsOnly ==
    [][\A p \in Procs :
          LET req == proc'[p]
              foreign_booking ==
                  /\ req.op = "initiate"
                  /\ req.bid \in DOMAIN bookings
                  /\ bookings[req.bid].guest # req.caller
              foreign_payment ==
                  /\ req.op = "verify"
                  /\ \E k \in DOMAIN payments :
                        /\ payments[k].status # "deleted"
                        /\ payments[k].payment_reference = req.ref
                        /\ bookings[payments[k].booking].guest # req.caller
          IN (Idle(p) /\ (foreign_booking \/ foreign_payment))
             => /\ req.pc = "done"
                /\ req.resp = "not_found"
                /\ req.gateway_calls = 0
                /\ req.pay = NoPay
                /\ UNCHANGED store]_vars

\* A verify of the listing's host for the Payment of a guest's Booking has
\* been answered not-found, and the Payment's count of attempts is zero.
OwnRecordsOnlyWitness ==
    \E p \in Procs, k \in DOMAIN payments :
        /\ proc[p].op = "verify" /\ proc[p].pc = "done"
        /\ proc[p].resp = "not_found"
        /\ payments[k].payment_reference = proc[p].ref
        /\ payments[k].booking \in DOMAIN bookings
        /\ bookings[payments[k].booking].guest # proc[p].caller
        /\ payments[k].verification_attempts = 0

\* C38: the amount stored on the new Payment and the amount sent to the
\* gateway both equal the Booking's total_price when the Payment is
\* initiated, and no later step, verify and webhook included, changes the
\* amount or the currency of a Payment.
AmountFixedAtInitiate ==
    [][/\ \A p \in Procs :
             (/\ proc[p].op = "initiate" /\ proc[p].pc = "create"
              /\ proc'[p].pc = "gateway")
             => /\ proc'[p].pay.pk \notin DOMAIN payments
                /\ payments'[proc'[p].pay.pk].amount =
                       bookings[proc[p].bid].total_price
                /\ payments'[proc'[p].pay.pk].currency = "ETB"
                /\ proc'[p].amount = bookings[proc[p].bid].total_price
       /\ \A k \in DOMAIN payments :
             /\ payments'[k].amount = payments[k].amount
             /\ payments'[k].currency = payments[k].currency]_vars

\* The Payment of the Booking priced 2 carries the amount 2 after a verify
\* or webhook for it has ended.
AmountFixedAtInitiateWitness ==
    \E p \in Procs, k \in DOMAIN payments :
        /\ proc[p].op \in {"verify", "webhook"} /\ proc[p].pc = "done"
        /\ proc[p].pay.pk = k
        /\ proc[p].resp \in {"completed", "failed", "pending"}
        /\ bookings[payments[k].booking].total_price = 2
        /\ payments[k].amount = 2

====
